---------------------------- MODULE Spec2Model ----------------------------
(***************************************************************************)
(* Elliptic-curve calculator (main.py, gui.py): finite fields GF(p) and    *)
(* GF(2^m), the two curve group laws, the task-line parser and executor,   *)
(* and the batch driver.                                                   *)
(*                                                                         *)
(* Conventions.  A Python int is a TLA+ integer.  A Point (Optional pair)  *)
(* is a record [inf, x, y]; None is Infinity.  A call that may raise       *)
(* returns an outcome record whose field err is "" on a normal return and  *)
(* the name of the failure otherwise.  A text line is a sequence of        *)
(* one-character strings.                                                  *)
(***************************************************************************)
EXTENDS Integers, Sequences, FiniteSets, TLC

(***************************************************************************)
(* Python integer primitives used by the fields.                           *)
(* A recursion on integers is written as a function, so that each call is  *)
(* made on values; the operator of the same name applies it.               *)
(***************************************************************************)
pow2[k \in Int] == IF k <= 0 THEN 1 ELSE 2 * pow2[k - 1]
Pow2(k) == pow2[k]

\* int.bit_length() of a non-negative integer
bit_length[v \in Int] == IF v <= 0 THEN 0 ELSE 1 + bit_length[v \div 2]
BitLength(v) == bit_length[v]

\* a ^ b on non-negative integers
xor[a \in Int, b \in Int] ==
    IF a = 0 THEN b
    ELSE IF b = 0 THEN a
    ELSE (((a % 2) + (b % 2)) % 2) + 2 * xor[a \div 2, b \div 2]
BitXor(a, b) == xor[a, b]

\* a | b on non-negative integers
or[a \in Int, b \in Int] ==
    IF a = 0 THEN b
    ELSE IF b = 0 THEN a
    ELSE (IF a % 2 = 1 \/ b % 2 = 1 THEN 1 ELSE 0) + 2 * or[a \div 2, b \div 2]
BitOr(a, b) == or[a, b]

Shl(a, k) == a * Pow2(k)
Max(S) == CHOOSE x \in S : \A y \in S : y <= x

Shr(a, k) == a \div Pow2(k)

\* pow(a, e, m) for e >= 0
pow[a \in Int, e \in Int, m \in Int] == IF e <= 0 THEN 1 % m ELSE (a * pow[a, e - 1, m]) % m
ModPow(a, e, m) == pow[a, e, m]

(***************************************************************************)
(* Outcomes of calls that may raise.                                       *)
(***************************************************************************)
Val(v)   == [err |-> "", val |-> v]
Raise(e) == [err |-> e, val |-> 0]

(***************************************************************************)
(* PrimeField                                                              *)
(***************************************************************************)
PF_add(p, a, b) == (a + b) % p
PF_sub(p, a, b) == (a - b) % p
PF_mul(p, a, b) == (a * b) % p
PF_square(p, a) == PF_mul(p, a, a)
PF_neg(p, a)    == (0 - a) % p

\* the exponent p - 1 in place of p - 2
PF_inv_WrongExponent(p, a) ==
    IF a % p = 0 THEN Raise("DivisionByZero")
    ELSE Val(ModPow(a, p - 1, p))

PF_inv(p, a) ==
    IF a % p = 0 THEN Raise("DivisionByZero")
    ELSE Val(ModPow(a, p - 2, p))

\* mul(a, i) for the outcome i of inv(b); a raise of inv passes through
PF_mulBy(p, a, i) == IF i.err # "" THEN i ELSE Val(PF_mul(p, a, i.val))
PF_div(p, a, b)   == PF_mulBy(p, a, PF_inv(p, b))

(***************************************************************************)
(* BinaryField                                                             *)
(***************************************************************************)
BF_degree(modulus) == BitLength(modulus) - 1

\* one iteration of the loop of reduce
BF_reduceStep(modulus, value) ==
    BitXor(value, Shl(modulus, BitLength(value) - 1 - BF_degree(modulus)))

reduce[modulus \in Int, value \in Int] ==
    IF BitLength(value) - 1 >= BF_degree(modulus)
    THEN reduce[modulus, BF_reduceStep(modulus, value)]
    ELSE value
BF_reduce(modulus, value) == reduce[modulus, value]

BF_add(a, b) == BitXor(a, b)
BF_sub(a, b) == BF_add(a, b)
BF_neg(a)    == a

\* `if aa >> self.degree: aa ^= self.modulus`
BF_fold(modulus, aa) ==
    IF Shr(aa, BF_degree(modulus)) # 0 THEN BitXor(aa, modulus) ELSE aa

\* the iteration without `aa <<= 1`
BF_mulStep_NoShift(modulus, s) ==
    <<IF s[3] % 2 = 1 THEN BitXor(s[1], s[2]) ELSE s[1],
      BF_fold(modulus, s[2]),
      s[3] \div 2>>

\* one iteration of `while bb` of mul on the locals <<result, aa, bb>>
BF_mulStep(modulus, s) ==
    <<IF s[3] % 2 = 1 THEN BitXor(s[1], s[2]) ELSE s[1],
      BF_fold(modulus, Shl(s[2], 1)),
      s[3] \div 2>>

\* the loop of mul run to its end: the value of result
mul_loop[modulus \in Int, s \in Int \X Int \X Int] ==
    IF s[3] = 0 THEN s[1] ELSE mul_loop[modulus, BF_mulStep(modulus, s)]
BF_mulLoop(modulus, result, aa, bb) == mul_loop[modulus, <<result, aa, bb>>]

BF_mul(modulus, a, b) == BF_reduce(modulus, BF_mulLoop(modulus, 0, a, b))
BF_square(modulus, a) == BF_mul(modulus, a, a)

\* u, v, g1, g2 after `if j < 0: u, v = v, u; g1, g2 = g2, g1`
BF_invSwap(s) ==
    IF BitLength(s[1]) - BitLength(s[2]) < 0 THEN <<s[2], s[1], s[4], s[3]>> ELSE s

\* `u ^= v << j; g1 ^= g2 << j` with j made non-negative by the swap
BF_invXor(s, j) == <<BitXor(s[1], Shl(s[2], j)), s[2], BitXor(s[3], Shl(s[4], j)), s[4]>>

inv_step[s \in Int \X Int \X Int \X Int] == BF_invXor(s, BitLength(s[1]) - BitLength(s[2]))

\* One iteration of the loop `while u != 1` of inv, on the state <<u, v, g1, g2>>.
BF_invStep(s) == inv_step[BF_invSwap(s)]

\* The loop of inv run to its end.  With v = 0 and u # 1 an iteration leaves
\* u and v as they are (u ^= 0 << j), so the loop never ends: outcome "Hang".
inv_loop[modulus \in Int, s \in Int \X Int \X Int \X Int] ==
    IF s[1] = 1 THEN Val(BF_reduce(modulus, s[3]))
    ELSE IF s[2] = 0 THEN Raise("Hang")
    ELSE inv_loop[modulus, BF_invStep(s)]
BF_invLoop(modulus, s) == inv_loop[modulus, s]

BF_inv(modulus, a) ==
    IF a = 0 THEN Raise("DivisionByZero")
    ELSE BF_invLoop(modulus, <<a, modulus, 1, 0>>)

\* mul(a, i) for the outcome i of inv(b); a raise of inv passes through
BF_mulBy(modulus, a, i) == IF i.err # "" THEN i ELSE Val(BF_mul(modulus, a, i.val))
BF_div(modulus, a, b)   == BF_mulBy(modulus, a, BF_inv(modulus, b))

(***************************************************************************)
(* Points and curves                                                       *)
(***************************************************************************)
Infinity  == [inf |-> TRUE, x |-> 0, y |-> 0]
Aff(x, y) == [inf |-> FALSE, x |-> x, y |-> y]

Ret(pt)  == [err |-> "", pt |-> pt]
Fail(e)  == [err |-> e, pt |-> Infinity]

PrimeCurve(p, a, b)        == [kind |-> "prime", f |-> p, a |-> a % p, b |-> b % p]
BinaryCurve(modulus, a, b) == [kind |-> "binary", f |-> modulus,
                               a |-> BF_reduce(modulus, a), b |-> BF_reduce(modulus, b)]

\* y3 = lam (x1 - x3) - y1, and the point returned (both curves' add and double)
PC_point(p, x1, y1, lam, x3) ==
    Ret(Aff(x3, PF_sub(p, PF_mul(p, lam, PF_sub(p, x1, x3)), y1)))

\* double after lam = (3 x1^2 + a) / (2 y1): x3 = lam^2 - 2 x1
PC_tangent(p, pt, lam) ==
    IF lam.err # "" THEN Fail(lam.err)
    ELSE PC_point(p, pt.x, pt.y, lam.val,
                  PF_sub(p, PF_square(p, lam.val), PF_mul(p, 2, pt.x)))

PC_double(c, pt) ==
    IF pt.inf THEN Ret(Infinity)
    ELSE IF pt.y % c.f = 0 THEN Ret(Infinity)
    ELSE PC_tangent(c.f, pt,
                    PF_div(c.f, PF_add(c.f, PF_mul(c.f, 3, PF_square(c.f, pt.x)), c.a),
                                PF_mul(c.f, 2, pt.y)))

\* add after lam = (y2 - y1) / (x2 - x1): x3 = lam^2 - x1 - x2
PC_chord(p, p1, p2, lam) ==
    IF lam.err # "" THEN Fail(lam.err)
    ELSE PC_point(p, p1.x, p1.y, lam.val,
                  PF_sub(p, PF_sub(p, PF_square(p, lam.val), p1.x), p2.x))

PC_add(c, p1, p2) ==
    IF p1.inf THEN Ret(p2)
    ELSE IF p2.inf THEN Ret(p1)
    ELSE IF p1.x = p2.x
         THEN IF (p1.y + p2.y) % c.f = 0 THEN Ret(Infinity)
              ELSE PC_double(c, p1)
    ELSE PC_chord(c.f, p1, p2,
                  PF_div(c.f, PF_sub(c.f, p2.y, p1.y), PF_sub(c.f, p2.x, p1.x)))

\* y3 = (x1 + x3) lam + x3 + y1, and the point returned with both coordinates reduced
BC_point(m, x1, y1, lam, x3) ==
    Ret(Aff(BF_reduce(m, x3),
            BF_reduce(m, BF_add(BF_mul(m, BF_add(x1, x3), lam), BF_add(x3, y1)))))

\* double after lam = x1 + y1 / x1: x3 = lam^2 + lam + a
BC_tangentLam(c, pt, lam) ==
    BC_point(c.f, pt.x, pt.y, lam, BF_add(BF_add(BF_square(c.f, lam), lam), c.a))

BC_tangent(c, pt, q) ==
    IF q.err # "" THEN Fail(q.err) ELSE BC_tangentLam(c, pt, BF_add(pt.x, q.val))

BC_double(c, pt) ==
    IF pt.inf THEN Ret(Infinity)
    ELSE IF pt.x = 0 THEN Ret(Infinity)
    ELSE BC_tangent(c, pt, BF_div(c.f, pt.y, pt.x))

\* add after lam = (y1 + y2) / (x1 + x2): x3 = lam^2 + lam + x1 + x2 + a
BC_chord(c, p1, p2, lam) ==
    IF lam.err # "" THEN Fail(lam.err)
    ELSE BC_point(c.f, p1.x, p1.y, lam.val,
                  BF_add(BF_add(BF_add(BF_square(c.f, lam.val), lam.val), p1.x),
                         BF_add(p2.x, c.a)))

BC_add(c, p1, p2) ==
    IF p1.inf THEN Ret(p2)
    ELSE IF p2.inf THEN Ret(p1)
    ELSE IF p1.x = p2.x
         THEN IF BF_add(p1.y, p2.y) = p1.x THEN Ret(Infinity)
              ELSE IF p1.y = p2.y THEN BC_double(c, p1)
              ELSE Fail("InvalidOperands")
    ELSE BC_chord(c, p1, p2, BF_div(c.f, BF_add(p1.y, p2.y), BF_add(p1.x, p2.x)))

\* curve.add / curve.double on whichever curve parse_curve built
CurveAdd(c, p1, p2) == IF c.kind = "prime" THEN PC_add(c, p1, p2) ELSE BC_add(c, p1, p2)
CurveDouble(c, pt)  == IF c.kind = "prime" THEN PC_double(c, pt) ELSE BC_double(c, pt)

\* the loop state after `addend = self.double(addend); k >>= 1`, d what double returned
AfterDouble(st, result, calls, d) ==
    IF d.err # ""
    THEN [st EXCEPT !.result = result, !.err = d.err, !.calls = calls + 1]
    ELSE [result |-> result, addend |-> d.pt, k |-> st.k \div 2, err |-> "", calls |-> calls + 1]

\* the loop state after `if k & 1: result = self.add(result, addend)`, r what add
\* returned (the result as it was when the bit is clear), and then the doubling
AfterAdd(c, st, r, calls) ==
    IF r.err # "" THEN [st EXCEPT !.err = r.err, !.calls = calls]
    ELSE AfterDouble(st, r.pt, calls, CurveDouble(c, st.addend))

\* the iteration with the doubling moved before the addition
DoubledFirst(c, st, d) ==
    IF d.err # "" THEN [st EXCEPT !.err = d.err, !.calls = st.calls + 1]
    ELSE AfterDouble(st, (IF st.k % 2 = 1 THEN CurveAdd(c, st.result, d.pt)
                          ELSE Ret(st.result)).pt, st.calls, d)
MultiplyIter_DoubleFirst(c, st) == DoubledFirst(c, st, CurveDouble(c, st.addend))

\* One iteration of `while k > 0` of multiply on the loop state
\* [result, addend, k, err, calls]; calls counts the add and double calls made.
MultiplyIter(c, st) ==
    IF st.k % 2 = 1
    THEN AfterAdd(c, st, CurveAdd(c, st.result, st.addend), st.calls + 1)
    ELSE AfterAdd(c, st, Ret(st.result), st.calls)

\* the entry of multiply without the test of the sign
MultiplyEnter_NoSignTest(pt, n) ==
    [result |-> Infinity, addend |-> pt, k |-> n, err |-> "", calls |-> 0]

\* The loop state on entry to multiply(p, n), after the n < 0 test.
MultiplyEnter(pt, n) ==
    IF n < 0
    THEN [result |-> Infinity, addend |-> pt, k |-> n, err |-> "InvalidScalar", calls |-> 0]
    ELSE [result |-> Infinity, addend |-> pt, k |-> n, err |-> "", calls |-> 0]

RECURSIVE MultiplyLoop(_, _)
MultiplyLoop(c, st) ==
    IF st.err # "" THEN Fail(st.err)
    ELSE IF st.k > 0 THEN MultiplyLoop(c, MultiplyIter(c, st))
    ELSE Ret(st.result)

CurveMultiply(c, pt, n) == MultiplyLoop(c, MultiplyEnter(pt, n))

(***************************************************************************)
(* Text.  A str is a sequence of one-character strings over the alphabet   *)
(* of digits, letters, space, "(", ")", ",", "+", "-" and "^".             *)
(***************************************************************************)
DecDigits == <<"0", "1", "2", "3", "4", "5", "6", "7", "8", "9">>
HexLower  == <<"a", "b", "c", "d", "e", "f">>
HexUpper  == <<"A", "B", "C", "D", "E", "F">>
Uppers == <<"A", "B", "C", "D", "E", "F", "G", "H", "I", "J", "K", "L", "M",
            "N", "O", "P", "Q", "R", "S", "T", "U", "V", "W", "X", "Y", "Z">>
Lowers == <<"a", "b", "c", "d", "e", "f", "g", "h", "i", "j", "k", "l", "m",
            "n", "o", "p", "q", "r", "s", "t", "u", "v", "w", "x", "y", "z">>

Range(sq) == {sq[i] : i \in 1..Len(sq)}
IndexIn(sq, ch) == CHOOSE i \in 1..Len(sq) : sq[i] = ch

IsDigit(ch) == ch \in Range(DecDigits)
IsHex(ch)   == ch \in Range(DecDigits) \cup Range(HexLower) \cup Range(HexUpper)
IsSpace(ch) == ch = " "

\* the value of a digit character in base 16 (and below)
DigitVal(ch) ==
    IF ch \in Range(DecDigits) THEN IndexIn(DecDigits, ch) - 1
    ELSE IF ch \in Range(HexLower) THEN IndexIn(HexLower, ch) + 9
    ELSE IndexIn(HexUpper, ch) + 9

\* str.lower(), per character
LowerCh(ch) == IF ch \in Range(Uppers) THEN Lowers[IndexIn(Uppers, ch)] ELSE ch
Lower(s)    == [i \in 1..Len(s) |-> LowerCh(s[i])]

RECURSIVE LStrip(_)
LStrip(s) == IF s # <<>> /\ IsSpace(Head(s)) THEN LStrip(Tail(s)) ELSE s

RECURSIVE RStrip(_)
RStrip(s) == IF s # <<>> /\ IsSpace(s[Len(s)]) THEN RStrip(SubSeq(s, 1, Len(s) - 1)) ELSE s

\* str.strip()
Strip(s) == RStrip(LStrip(s))

\* str.rstrip(","): every trailing comma goes
RECURSIVE RStripComma(_)
RStripComma(s) ==
    IF s # <<>> /\ s[Len(s)] = "," THEN RStripComma(SubSeq(s, 1, Len(s) - 1)) ELSE s

\* str.split(sep) for a one-character sep: k separators give k + 1 parts
RECURSIVE SplitOn(_, _)
SplitOn(s, sep) ==
    IF \E i \in 1..Len(s) : s[i] = sep
    THEN LET i == CHOOSE i \in 1..Len(s) : s[i] = sep /\ \A j \in 1..(i - 1) : s[j] # sep
         IN  <<SubSeq(s, 1, i - 1)>> \o SplitOn(SubSeq(s, i + 1, Len(s)), sep)
    ELSE <<s>>

\* str.split(): the maximal runs of non-whitespace
RECURSIVE SplitWs(_)
SplitWs(s) ==
    LET t == LStrip(s)
    IN  IF t = <<>> THEN <<>>
        ELSE IF \E i \in 1..Len(t) : IsSpace(t[i])
        THEN LET i == CHOOSE i \in 1..Len(t) :
                         IsSpace(t[i]) /\ \A j \in 1..(i - 1) : ~IsSpace(t[j])
             IN  <<SubSeq(t, 1, i - 1)>> \o SplitWs(SubSeq(t, i + 1, Len(t)))
        ELSE <<t>>

\* the value of a digit string in a base, most significant digit first
RECURSIVE DigitsValue(_, _)
DigitsValue(ds, base) ==
    IF ds = <<>> THEN 0
    ELSE DigitsValue(SubSeq(ds, 1, Len(ds) - 1), base) * base + DigitVal(ds[Len(ds)])

AllIn(ds, base) == ds # <<>> /\ \A i \in 1..Len(ds) : IsHex(ds[i]) /\ DigitVal(ds[i]) < base

\* int(s, 0) on an unsigned literal: 0x / 0o / 0b prefixes, else decimal,
\* and a decimal literal with a leading zero is accepted only when it is zero
Prefixed(ds, base) ==
    IF AllIn(ds, base) THEN Val(DigitsValue(ds, base)) ELSE Raise("FormatError")

UnsignedLit(s) ==
    IF Len(s) >= 2 /\ s[1] = "0" /\ s[2] \in {"x", "X", "b", "B", "o", "O"}
    THEN Prefixed(SubSeq(s, 3, Len(s)),
                  IF s[2] \in {"x", "X"} THEN 16 ELSE IF s[2] \in {"b", "B"} THEN 2 ELSE 8)
    ELSE IF AllIn(s, 10) /\ (s[1] # "0" \/ \A i \in 1..Len(s) : s[i] = "0")
    THEN Val(DigitsValue(s, 10))
    ELSE Raise("FormatError")

Negated(u) == IF u.err # "" THEN u ELSE Val(0 - u.val)

\* int(s, 0) on a stripped literal: one sign is allowed
SignedLit(s) ==
    IF s # <<>> /\ s[1] = "-" THEN Negated(UnsignedLit(Tail(s)))
    ELSE IF s # <<>> /\ s[1] = "+" THEN UnsignedLit(Tail(s))
    ELSE UnsignedLit(s)

\* int(s, 0): surrounding whitespace is allowed
IntLit(s) == SignedLit(Strip(s))

parse_int(raw) == IntLit(RStripComma(Strip(raw)))

(***************************************************************************)
(* Task lines: extract_points, extract_scalar, format_point, handle_task   *)
(***************************************************************************)
\* the least j >= i with s[j] = ")", or 0
CloseFrom(s, i) ==
    IF \E j \in i..Len(s) : s[j] = ")"
    THEN CHOOSE j \in i..Len(s) : s[j] = ")" /\ \A k \in i..(j - 1) : s[k] # ")"
    ELSE 0

\* the groups from an opening parenthesis at i whose next ")" is at j (0: none)
RECURSIVE FindGroups(_, _)
GroupAt(s, i, j) ==
    IF j > i + 1 THEN <<SubSeq(s, i + 1, j - 1)>> \o FindGroups(s, j + 1)
    ELSE FindGroups(s, i + 1)

\* re.findall(r"\(([^)]+)\)", line) from position i: the group contents
FindGroups(s, i) ==
    IF i > Len(s) THEN <<>>
    ELSE IF s[i] = "(" THEN GroupAt(s, i, CloseFrom(s, i + 1))
    ELSE FindGroups(s, i + 1)

PointOf(x, y) ==
    IF x.err # "" THEN Fail(x.err)
    ELSE IF y.err # "" THEN Fail(y.err)
    ELSE Ret(Aff(x.val, y.val))

PointOfParts(parts) ==
    IF Len(parts) # 2 THEN Fail("FormatError")
    ELSE PointOf(parse_int(parts[1]), parse_int(parts[2]))

\* x_raw, y_raw = raw_point.split(","); (parse_int(x_raw), parse_int(y_raw))
ParsePoint(raw) == PointOfParts(SplitOn(raw, ","))

PointsCons(h, t) ==
    IF t.err # "" THEN t ELSE [err |-> "", pts |-> <<h.pt>> \o t.pts]

RECURSIVE ParsePoints(_)
PointsFrom(h, rest) ==
    IF h.err # "" THEN [err |-> h.err, pts |-> <<>>]
    ELSE PointsCons(h, ParsePoints(rest))

ParsePoints(groups) ==
    IF groups = <<>> THEN [err |-> "", pts |-> <<>>]
    ELSE PointsFrom(ParsePoint(Head(groups)), Tail(groups))

extract_points(line) == ParsePoints(FindGroups(line, 1))

\* the text from an opening parenthesis at i whose next ")" is at j (0: none)
RECURSIVE RemoveGroups(_, _)
UngroupAt(s, i, j) ==
    IF j # 0 THEN <<" ">> \o RemoveGroups(s, j + 1)
    ELSE <<s[i]>> \o RemoveGroups(s, i + 1)

\* re.sub(r"\([^)]*\)", " ", line) from position i
RemoveGroups(s, i) ==
    IF i > Len(s) THEN <<>>
    ELSE IF s[i] = "(" THEN UngroupAt(s, i, CloseFrom(s, i + 1))
    ELSE <<s[i]>> \o RemoveGroups(s, i + 1)

\* the end of the longest run of characters of the class from i (i - 1 when empty)
RECURSIVE RunEnd(_, _, _)
RunEnd(s, i, class) ==
    IF i <= Len(s) /\ s[i] \in class THEN RunEnd(s, i + 1, class) ELSE i - 1

HexChars == Range(DecDigits) \cup Range(HexLower) \cup Range(HexUpper)

\* the end of a match of 0x[0-9a-fA-F]+|0b[01]+|\d+ that starts at k, or 0
UnsignedEnd(s, k) ==
    IF k + 2 <= Len(s) /\ s[k] = "0" /\ s[k + 1] = "x" /\ s[k + 2] \in HexChars
    THEN RunEnd(s, k + 2, HexChars)
    ELSE IF k + 2 <= Len(s) /\ s[k] = "0" /\ s[k + 1] = "b" /\ s[k + 2] \in {"0", "1"}
    THEN RunEnd(s, k + 2, {"0", "1"})
    ELSE IF k <= Len(s) /\ IsDigit(s[k])
    THEN RunEnd(s, k, Range(DecDigits))
    ELSE 0

\* the end of the match of (-?0x[0-9a-fA-F]+|-?0b[01]+|-?\d+) that starts at i, or 0
NumeralEnd(s, i) == UnsignedEnd(s, IF s[i] = "-" THEN i + 1 ELSE i)

\* re.search of the numeral from position i on: the text of the first match
RECURSIVE FirstNumeral(_, _)
NumeralAt(s, i, e) ==
    IF e # 0 THEN parse_int(SubSeq(s, i, e)) ELSE FirstNumeral(s, i + 1)

FirstNumeral(s, i) ==
    IF i > Len(s) THEN Raise("MissingScalar")
    ELSE NumeralAt(s, i, NumeralEnd(s, i))

extract_scalar(line) == FirstNumeral(RemoveGroups(line, 1), 1)

format_point(pt) ==
    IF pt.inf THEN "0"
    ELSE "(" \o ToString(pt.x) \o ", " \o ToString(pt.y) \o ")"

NoTask == [err |-> "", op |-> "", pts |-> <<>>, scalar |-> 0]

WithScalar(ps, sc) ==
    IF sc.err # "" THEN [NoTask EXCEPT !.err = sc.err]
    ELSE [NoTask EXCEPT !.op = "m", !.pts = ps.pts, !.scalar = sc.val]

\* the branch op.startswith("a") up to the curve call, ps what extract_points returned
AddTask(ps) ==
    IF ps.err # "" THEN [NoTask EXCEPT !.err = ps.err]
    ELSE IF Len(ps.pts) # 2 THEN [NoTask EXCEPT !.err = "WrongArity"]
    ELSE [NoTask EXCEPT !.op = "a", !.pts = ps.pts]

\* the branch op.startswith("m") up to the curve call
MulTask(line, ps) ==
    IF ps.err # "" THEN [NoTask EXCEPT !.err = ps.err]
    ELSE IF Len(ps.pts) # 1 THEN [NoTask EXCEPT !.err = "WrongArity"]
    ELSE WithScalar(ps, extract_scalar(line))

TaskOf(line, op) ==
    IF op # <<>> /\ op[1] = "a" THEN AddTask(extract_points(line))
    ELSE IF op # <<>> /\ op[1] = "m" THEN MulTask(line, extract_points(line))
    ELSE [NoTask EXCEPT !.err = "UnknownTask"]

\* What handle_task reads off a line before it calls the curve:
\* [err, op, pts, scalar] with op "a" or "m".
TaskParse(line) == TaskOf(line, Lower(Strip(line)))

AddLine(t, res) ==
    format_point(t.pts[1]) \o " + " \o format_point(t.pts[2]) \o " = " \o format_point(res)
MulLine(t, res) ==
    format_point(t.pts[1]) \o " * " \o ToString(t.scalar) \o " = " \o format_point(res)

AddResult(t, r) ==
    IF r.err # "" THEN [err |-> r.err, out |-> ""] ELSE [err |-> "", out |-> AddLine(t, r.pt)]
MulResult(t, r) ==
    IF r.err # "" THEN [err |-> r.err, out |-> ""] ELSE [err |-> "", out |-> MulLine(t, r.pt)]

\* handle_task after the line is read: the curve call and the result line
RunParsed(curve, t) ==
    IF t.err # "" THEN [err |-> t.err, out |-> ""]
    ELSE IF t.op = "a" THEN AddResult(t, CurveAdd(curve, t.pts[1], t.pts[2]))
    ELSE MulResult(t, CurveMultiply(curve, t.pts[1], t.scalar))

\* handle_task(curve, line): [err, out]
handle_task(curve, line) == RunParsed(curve, TaskParse(line))

(***************************************************************************)
(* The header of an input: normalize_curve_type, build_modulus, parse_ab,  *)
(* parse_curve                                                             *)
(***************************************************************************)
IsAlnum(ch) == ch \in Range(Lowers) \cup Range(DecDigits)

\* re.sub(r"[^a-z0-9]", "", s)
RECURSIVE KeepAlnum(_)
KeepAlnum(s) ==
    IF s = <<>> THEN <<>>
    ELSE (IF IsAlnum(Head(s)) THEN <<Head(s)>> ELSE <<>>) \o KeepAlnum(Tail(s))

normalize_curve_type(s) == KeepAlnum(Lower(Strip(s)))

\* sub in t
Contains(t, sub) == \E i \in 1..(Len(t) - Len(sub) + 1) : SubSeq(t, i, i + Len(sub) - 1) = sub
StartsWith(t, sub) == Len(t) >= Len(sub) /\ SubSeq(t, 1, Len(sub)) = sub

\* [parse_int(token) for token in tokens]
IntsCons(h, t) ==
    IF t.err # "" THEN t ELSE [err |-> "", vals |-> <<h.val>> \o t.vals]

RECURSIVE ParseInts(_)
IntsFrom(h, rest) ==
    IF h.err # "" THEN [err |-> h.err, vals |-> <<>>]
    ELSE IntsCons(h, ParseInts(rest))

ParseInts(tokens) ==
    IF tokens = <<>> THEN [err |-> "", vals |-> <<>>]
    ELSE IntsFrom(parse_int(Head(tokens)), Tail(tokens))

\* the loop `for power in exponents` from a modulus built so far
RECURSIVE OrPowers(_, _)
OrPowers(modulus, exponents) ==
    IF exponents = <<>> THEN Val(modulus)
    ELSE IF Head(exponents) < 0 THEN Raise("InvalidExponent")
    ELSE OrPowers(BitOr(modulus, Shl(1, Head(exponents))), Tail(exponents))

ModulusOf(exponents) ==
    IF exponents.err # "" THEN Raise(exponents.err)
    ELSE IF exponents.vals = <<>> THEN Raise("EmptyExponents")
    ELSE OrPowers(0, exponents.vals)

build_modulus(exponents_line) == ModulusOf(ParseInts(SplitWs(exponents_line)))

Coefficients(a, b, n) ==
    IF a.err # "" THEN [err |-> a.err, a |-> 0, b |-> 0, consumed |-> 0]
    ELSE IF b.err # "" THEN [err |-> b.err, a |-> 0, b |-> 0, consumed |-> 0]
    ELSE [err |-> "", a |-> a.val, b |-> b.val, consumed |-> n]

\* parse_ab(rest_lines): [err, a, b, consumed]
\* parse_ab with first_line_parts the tokens of the first line
CoefficientsFrom(rest_lines, first_line_parts) ==
    IF Len(first_line_parts) >= 2
    THEN Coefficients(parse_int(first_line_parts[1]), parse_int(first_line_parts[2]), 1)
    ELSE IF Len(rest_lines) < 2 THEN Coefficients(Raise("MissingCoefficients"), Val(0), 0)
    ELSE Coefficients(parse_int(rest_lines[1]), parse_int(rest_lines[2]), 2)

parse_ab(rest_lines) ==
    IF rest_lines = <<>> THEN Coefficients(Raise("MissingCoefficients"), Val(0), 0)
    ELSE CoefficientsFrom(rest_lines, SplitWs(rest_lines[1]))

PrimeAliases  == { <<"1">>, <<"z", "p">>, <<"f", "p">>, <<"p", "r", "i", "m", "e">>,
                   <<"z", "p", "p">>, <<"z", "p", "c">> }
BinaryAliases == { <<"2">>, <<"3">>, <<"g", "f", "2", "s">>, <<"g", "f", "2", "n", "s">>,
                   <<"g", "f", "2">>, <<"g", "f", "2", "n">> }

NoCurve == [kind |-> "prime", f |-> 2, a |-> 0, b |-> 0]
Parsed(c, tasks) == [err |-> "", curve |-> c, tasks |-> tasks]
Unparsed(e)      == [err |-> e, curve |-> NoCurve, tasks |-> <<>>]

\* the two branches of parse_curve after the field parameter is read; ab is
\* what parse_ab(lines[2:]) returned.  A modulus p = 0 makes `a % field.p` raise.
PrimeBranch(lines, p, ab) ==
    IF p.err # "" THEN Unparsed(p.err)
    ELSE IF ab.err # "" THEN Unparsed(ab.err)
    ELSE IF p.val = 0 THEN Unparsed("ZeroModulus")
    ELSE Parsed(PrimeCurve(p.val, ab.a, ab.b), SubSeq(lines, 3 + ab.consumed, Len(lines)))

BinaryBranch(lines, modulus, ab) ==
    IF modulus.err # "" THEN Unparsed(modulus.err)
    ELSE IF ab.err # "" THEN Unparsed(ab.err)
    ELSE Parsed(BinaryCurve(modulus.val, ab.a, ab.b), SubSeq(lines, 3 + ab.consumed, Len(lines)))

\* parse_curve(lines): [err, curve, tasks]; lines holds at least 4 lines
CurveOfType(lines, t) ==
    IF t \in PrimeAliases \/ Contains(t, <<"z", "p">>)
    THEN PrimeBranch(lines, parse_int(lines[2]), parse_ab(SubSeq(lines, 3, Len(lines))))
    ELSE IF \/ t \in BinaryAliases
            \/ Contains(t, <<"g", "f", "2">>)
            \/ (StartsWith(t, <<"g", "f">>) /\ Contains(t, <<"2">>))
    THEN BinaryBranch(lines, build_modulus(lines[2]), parse_ab(SubSeq(lines, 3, Len(lines))))
    ELSE Unparsed("UnknownCurveType")

parse_curve(lines) == CurveOfType(lines, normalize_curve_type(lines[1]))

\* [line.strip() for line in text.splitlines() if line.strip()]
RECURSIVE NonBlank(_)
NonBlank(raw) ==
    IF raw = <<>> THEN <<>>
    ELSE (IF Strip(Head(raw)) # <<>> THEN <<Strip(Head(raw))>> ELSE <<>>) \o NonBlank(Tail(raw))

\* process_file and run_on_text up to the task list: [err, curve, tasks]
CurveAndTasks(lines) ==
    IF Len(lines) < 4 THEN Unparsed("InsufficientInput") ELSE parse_curve(lines)

ReadInput(raw) == CurveAndTasks(NonBlank(raw))

\* "\n".join(results)
RECURSIVE Join(_)
Join(results) ==
    IF results = <<>> THEN ""
    ELSE IF Len(results) = 1 THEN results[1]
    ELSE results[1] \o "\n" \o Join(Tail(results))

(***************************************************************************)
(* Input domains.  The code checks neither primality, irreducibility nor   *)
(* that a point lies on the curve; these predicates only select inputs.    *)
(***************************************************************************)
MaxCoord == 5      \* task points have coordinates in 0..MaxCoord
MaxN == 6          \* scalars of generated tasks range over MinN..MaxN
MaxScalar == 12    \* scalars of the on-curve multiplications range over 0..MaxScalar

IsPrime(p) == p >= 2 /\ \A d \in 2..(p - 1) : p % d # 0

\* the carry-less (schoolbook) product of two polynomials over GF(2)
RECURSIVE ClMul(_, _)
ClMul(a, b) == IF b = 0 THEN 0
               ELSE BitXor(IF b % 2 = 1 THEN a ELSE 0, 2 * ClMul(a, b \div 2))

\* the remainder of the polynomial long division of v by m (m # 0)
RECURSIVE PolyMod(_, _)
PolyMod(v, m) ==
    IF BitLength(v) < BitLength(m) THEN v
    ELSE PolyMod(BitXor(v, m * Pow2(BitLength(v) - BitLength(m))), m)

Irreducible(m) ==
    /\ m >= 2
    /\ \A f \in 2..(m - 1) : BitLength(f) < BitLength(m) => PolyMod(m, f) # 0

\* the number of elements of the curve's field
FieldSize(c) == IF c.kind = "prime" THEN c.f ELSE Pow2(BF_degree(c.f))

\* a field element in canonical reduced form
CanonicalElt(c, v) == v \in 0..(FieldSize(c) - 1)
Canonical(c, pt) == pt.inf \/ (CanonicalElt(c, pt.x) /\ CanonicalElt(c, pt.y))

\* y^2 = x^3 + a x + b over GF(p);  y^2 + x y = x^3 + a x^2 + b over GF(2^m)
OnCurve(c, pt) ==
    \/ pt.inf
    \/ /\ Canonical(c, pt)
       /\ IF c.kind = "prime"
          THEN (pt.y * pt.y) % c.f
                 = (pt.x * pt.x * pt.x + c.a * pt.x + c.b) % c.f
          ELSE BF_add(BF_square(c.f, pt.y), BF_mul(c.f, pt.x, pt.y))
                 = BF_add(BF_add(BF_mul(c.f, BF_square(c.f, pt.x), pt.x),
                                 BF_mul(c.f, c.a, BF_square(c.f, pt.x))), c.b)

NonSingular(c) ==
    IF c.kind = "prime"
    THEN c.f # 2 /\ (4 * c.a * c.a * c.a + 27 * c.b * c.b) % c.f # 0
    ELSE c.b # 0

PrimeCurves(ps) == {PrimeCurve(p, a, b) : <<p, a, b>> \in
                      {t \in ps \X (0..Max(ps)) \X (0..Max(ps)) : t[2] < t[1] /\ t[3] < t[1]}}
BinaryCurves(ms) == {BinaryCurve(m, a, b) : <<m, a, b>> \in
                      {t \in ms \X (0..Max(ms)) \X (0..Max(ms)) :
                          BitLength(t[2]) < BitLength(t[1]) /\ BitLength(t[3]) < BitLength(t[1])}}

\* str(n)
RECURSIVE NatChars(_)
NatChars(n) == IF n < 10 THEN <<DecDigits[n + 1]>>
               ELSE NatChars(n \div 10) \o <<DecDigits[(n % 10) + 1]>>
IntChars(n) == IF n < 0 THEN <<"-">> \o NatChars(0 - n) ELSE NatChars(n)

PointText(x, y) == <<"(">> \o IntChars(x) \o <<",">> \o IntChars(y) \o <<")">>
AddText(x1, y1, x2, y2) == <<"A", " ">> \o PointText(x1, y1) \o <<" ">> \o PointText(x2, y2)
MulText(x, y, n) == <<"M", " ">> \o PointText(x, y) \o <<" ">> \o IntChars(n)

(***************************************************************************)
(* State                                                                   *)
(***************************************************************************)
VARIABLES
    curve,   \* the curve parse_curve built
    line,    \* the task line handed to handle_task
    pc,      \* where the run is
    task,    \* what handle_task read off the line
    st,      \* the locals of multiply: result, addend, k (and the calls made)
    res,     \* the Point the curve call returned
    err,     \* the exception that ended the run, "" when none
    out,     \* the result line handle_task returned
    fld,     \* a field: [kind, m] with m the prime p or the reduction polynomial
    fa, fb,  \* two elements of fld
    prod,    \* what mul returned
    invres,  \* what inv returned or raised
    frame,   \* BinaryField.inv in progress: its locals and the curve call waiting for it
    mode,    \* "batch": main over the files of INPUT; "text": run_on_text
    files,   \* the inputs, in the order main processes them: each a sequence of raw lines
    fi,      \* the index of the input being processed
    tasks,   \* the task lines of that input
    ti,      \* the index of the task the list comprehension is at
    results, \* the result lines so far
    written  \* the output files written: pairs <<index of the input, text>>

taskVars  == <<curve, line, task, st, res, out>>
fieldVars == <<fld, fa, fb, prod, invres, frame>>
batchVars == <<mode, files, fi, tasks, ti, results, written>>
vars == <<pc, err, taskVars, fieldVars, batchVars>>

BatchIdle == /\ mode = "" /\ files = <<>> /\ fi = 0 /\ tasks = <<>>
             /\ ti = 0 /\ results = <<>> /\ written = {}

NoField == [kind |-> "prime", m |-> 2]
NoFrame == [s |-> <<1, 0, 1, 0>>, num |-> 0, op |-> "", p1 |-> Infinity, p2 |-> Infinity,
            ret |-> ""]
FieldIdle == fld = NoField /\ fa = 0 /\ fb = 0 /\ prod = 0 /\ invres = Val(0) /\ frame = NoFrame

NoLoop == [result |-> Infinity, addend |-> Infinity, k |-> 0, err |-> "", calls |-> 0]

\* a raised exception ends the run; a loop that never exits leaves it running
Fate(e) == IF e = "Hang" THEN "hung" ELSE "failed"
Seen(e) == IF e = "Hang" THEN "" ELSE e

(***************************************************************************)
(* handle_task on one line, the loop of multiply one iteration at a time   *)
(***************************************************************************)
SmallPrimes  == {2, 3, 5}
SmallModuli  == {2, 3, 7}
SmallCurves  == PrimeCurves(SmallPrimes) \cup BinaryCurves(SmallModuli)
MinN == 0 - 2

Coords == 0..MaxCoord
OtherLines == {
    <<"Z", " ", "(", "1", ",", "2", ")">>,
    <<"A", " ", "(", "1", ",", "2", ")">>,
    <<"M", " ", "(", "1", ",", "2", ")">>,
    <<"M", " ", "(", "1", ",", "0", ")", " ", "-", "3">>,
    <<"m", " ", "(", "0", "x", "1", ",", " ", "0", "b", "1", ")", " ", "-", "0", "x", "2">>,
    <<"M", " ", "(", "1", ",", "0", ")", " ", "-", "0", "3">>,
    <<"M", " ", "(", "1", ")", " ", "2">> }
TaskLines ==
    {AddText(q[1], q[2], q[3], q[4]) : q \in Coords \X Coords \X Coords \X Coords}
      \cup {MulText(q[1], q[2], q[3]) : q \in Coords \X Coords \X (MinN..MaxN)}
      \cup OtherLines

Init ==
    /\ curve \in SmallCurves
    /\ line \in TaskLines
    /\ pc = "ready"
    /\ task = NoTask
    /\ st = NoLoop
    /\ res = Infinity
    /\ err = ""
    /\ out = ""
    /\ FieldIdle
    /\ BatchIdle

\* handle_task up to the curve call: extract_points, the arity test,
\* extract_scalar, or the final raise for a line that starts with neither letter
ParseTask ==
    /\ pc = "ready"
    /\ task' = TaskParse(line)
    /\ pc' = IF task'.err # "" THEN "failed" ELSE "parsed"
    /\ err' = task'.err
    /\ UNCHANGED <<curve, line, st, res, out, fieldVars, batchVars>>

AddOutcome(r) ==
    /\ pc' = IF r.err # "" THEN Fate(r.err) ELSE "done"
    /\ err' = Seen(r.err)
    /\ res' = r.pt
    /\ out' = IF r.err # "" THEN "" ELSE AddLine(task, r.pt)

\* the branch op.startswith("a"): curve.add and the result line
Addition ==
    /\ pc = "parsed"
    /\ task.op = "a"
    /\ AddOutcome(CurveAdd(curve, task.pts[1], task.pts[2]))
    /\ UNCHANGED <<curve, line, task, st, fieldVars, batchVars>>

\* the branch op.startswith("m"): the entry of multiply, to the head of its loop
MultiplyCall ==
    /\ pc = "parsed"
    /\ task.op = "m"
    /\ st' = MultiplyEnter(task.pts[1], task.scalar)
    /\ pc' = IF st'.err # "" THEN "failed" ELSE "multiply"
    /\ err' = st'.err
    /\ UNCHANGED <<curve, line, task, res, out, fieldVars, batchVars>>

\* one iteration of `while k > 0`
MultiplyIteration ==
    /\ pc = "multiply"
    /\ st.k > 0
    /\ st' = MultiplyIter(curve, st)
    /\ pc' = IF st'.err # "" THEN Fate(st'.err) ELSE "multiply"
    /\ err' = Seen(st'.err)
    /\ UNCHANGED <<curve, line, task, res, out, fieldVars, batchVars>>

\* `return result` and the formatting of the result line
MultiplyReturn ==
    /\ pc = "multiply"
    /\ ~(st.k > 0)
    /\ res' = st.result
    /\ out' = MulLine(task, st.result)
    /\ pc' = "done"
    /\ UNCHANGED <<curve, line, task, st, err, fieldVars, batchVars>>

Next == ParseTask \/ Addition \/ MultiplyCall \/ MultiplyIteration \/ MultiplyReturn

Spec == Init /\ [][Next]_vars

(***************************************************************************)
(* multiply on points of non-singular curves                               *)
(***************************************************************************)
CurvePrimes == {3, 5, 7}
CurveModuli == {2, 3, 7, 11, 13}
GoodCurves  == {c \in PrimeCurves(CurvePrimes) \cup BinaryCurves(CurveModuli) : NonSingular(c)}

InitOnCurve ==
    /\ curve \in GoodCurves
    /\ \E x \in 0..(FieldSize(curve) - 1), y \in 0..(FieldSize(curve) - 1) :
          /\ OnCurve(curve, Aff(x, y))
          /\ \E n \in 0..MaxScalar : line = MulText(x, y, n)
    /\ pc = "ready"
    /\ task = NoTask
    /\ st = NoLoop
    /\ res = Infinity
    /\ err = ""
    /\ out = ""
    /\ FieldIdle
    /\ BatchIdle

NextMultiply == ParseTask \/ MultiplyCall \/ MultiplyIteration \/ MultiplyReturn

SpecMultiply == InitOnCurve /\ [][NextMultiply]_vars

(***************************************************************************)
(* The field operations on their own                                       *)
(***************************************************************************)
MaxPrime == 13      \* prime fields GF(p) for the primes p <= MaxPrime
MaxModulus == 31    \* binary fields for every modulus in 2..MaxModulus

F_mul(f, a, b) == IF f.kind = "prime" THEN PF_mul(f.m, a, b) ELSE BF_mul(f.m, a, b)
F_inv(f, a)    == IF f.kind = "prime" THEN PF_inv(f.m, a) ELSE BF_inv(f.m, a)
F_size(f)      == IF f.kind = "prime" THEN f.m ELSE Pow2(BF_degree(f.m))

Fields == {[kind |-> "prime", m |-> p] : p \in {q \in 2..MaxPrime : IsPrime(q)}}
            \cup {[kind |-> "binary", m |-> m] : m \in 2..MaxModulus}

\* the modulus is what the field assumes: a prime, an irreducible polynomial
Proper(f) == IF f.kind = "prime" THEN IsPrime(f.m) ELSE Irreducible(f.m)

InitField ==
    /\ fld \in Fields
    /\ fa \in 0..(F_size(fld) - 1)
    /\ fb \in 0..(F_size(fld) - 1)
    /\ prod = 0
    /\ invres = Val(0)
    /\ frame = NoFrame
    /\ pc = "ready"
    /\ err = ""
    /\ curve = PrimeCurve(2, 0, 0) /\ line = <<>> /\ task = NoTask
    /\ st = NoLoop /\ res = Infinity /\ out = ""
    /\ BatchIdle

\* mul(fa, fb)
FieldMul ==
    /\ pc = "ready"
    /\ prod' = F_mul(fld, fa, fb)
    /\ pc' = "mul"
    /\ UNCHANGED <<err, fld, fa, fb, invres, frame, taskVars, batchVars>>

\* inv(fa)
FieldInv ==
    /\ pc = "ready"
    /\ invres' = F_inv(fld, fa)
    /\ pc' = IF invres'.err # "" THEN Fate(invres'.err) ELSE "inv"
    /\ err' = Seen(invres'.err)
    /\ UNCHANGED <<fld, fa, fb, prod, frame, taskVars, batchVars>>

\* mul(fa, inv(fa))
FieldMulInv ==
    /\ pc = "inv"
    /\ prod' = F_mul(fld, fa, invres.val)
    /\ pc' = "mulinv"
    /\ UNCHANGED <<err, fld, fa, fb, invres, frame, taskVars, batchVars>>

NextField == FieldMul \/ FieldInv \/ FieldMulInv

SpecField == InitField /\ [][NextField]_vars

(***************************************************************************)
(* A task on a binary curve, the loop of BinaryField.inv one iteration at  *)
(* a time.  A curve call that divides suspends in frame until inv returns. *)
(***************************************************************************)
MaxTermCoord == 3      \* the coordinates of a task are 0..MaxTermCoord
TermModuli == {m \in 2..7 : Irreducible(m)}
TermCoords == 0..MaxTermCoord

\* a curve call that returns r without dividing
Now(r) == [now |-> TRUE, r |-> r, frame |-> NoFrame]

\* div(num, den) called by op on p1, p2: inv raises on 0, else enters its loop
\* with u, v = den, modulus and g1, g2 = 1, 0
Dividing(c, op, p1, p2, num, den) ==
    IF den = 0 THEN Now(Fail("DivisionByZero"))
    ELSE [now |-> FALSE, r |-> Ret(Infinity),
          frame |-> [s |-> <<den, c.f, 1, 0>>, num |-> num, op |-> op,
                     p1 |-> p1, p2 |-> p2, ret |-> ""]]

\* BinaryCurve.double up to its call of div
BC_beginDouble(c, pt) ==
    IF pt.inf THEN Now(Ret(Infinity))
    ELSE IF pt.x = 0 THEN Now(Ret(Infinity))
    ELSE Dividing(c, "double", pt, pt, pt.y, pt.x)

\* BinaryCurve.add up to its call of div
BC_beginAdd(c, p1, p2) ==
    IF p1.inf THEN Now(Ret(p2))
    ELSE IF p2.inf THEN Now(Ret(p1))
    ELSE IF p1.x = p2.x
         THEN IF BF_add(p1.y, p2.y) = p1.x THEN Now(Ret(Infinity))
              ELSE IF p1.y = p2.y THEN BC_beginDouble(c, p1)
              ELSE Now(Fail("InvalidOperands"))
    ELSE Dividing(c, "add", p1, p2, BF_add(p1.y, p2.y), BF_add(p1.x, p2.x))

\* the rest of add or double once inv has returned i
BC_finish(c, fr, i) ==
    IF fr.op = "add" THEN BC_chord(c, fr.p1, fr.p2, BF_mulBy(c.f, fr.num, i))
    ELSE BC_tangent(c, fr.p1, BF_mulBy(c.f, fr.num, i))

\* `result = self.add(result, addend)` has returned or raised r
AddReturned(r) ==
    /\ st' = IF r.err # "" THEN [st EXCEPT !.err = r.err, !.calls = @ + 1]
             ELSE [st EXCEPT !.result = r.pt, !.calls = @ + 1]
    /\ pc' = IF r.err # "" THEN "failed" ELSE "doubling"
    /\ err' = r.err
    /\ UNCHANGED <<res, out>>

\* `addend = self.double(addend)` has returned or raised r; then k >>= 1
DoubleReturned(r) ==
    /\ st' = AfterDouble(st, st.result, st.calls, r)
    /\ pc' = IF r.err # "" THEN "failed" ELSE "multiply"
    /\ err' = r.err
    /\ UNCHANGED <<res, out>>

\* the curve call returns r to the place ret it was made from
Return(ret, r) ==
    IF ret = "task" THEN AddOutcome(r) /\ UNCHANGED st
    ELSE IF ret = "add" THEN AddReturned(r)
    ELSE DoubleReturned(r)

\* a curve call made from ret: it returns at once, or waits for inv
Begin(b, ret) ==
    IF b.now THEN Return(ret, b.r) /\ frame' = NoFrame
    ELSE /\ frame' = [b.frame EXCEPT !.ret = ret]
         /\ pc' = "inverting"
         /\ UNCHANGED <<st, res, err, out>>

\* what handle_task has read off an Add or a Multiply line
TermTasks ==
    {[NoTask EXCEPT !.op = "a", !.pts = <<Aff(q[1], q[2]), Aff(q[3], q[4])>>] :
        q \in TermCoords \X TermCoords \X TermCoords \X TermCoords}
      \cup {[NoTask EXCEPT !.op = "m", !.pts = <<Aff(q[1], q[2])>>, !.scalar = q[3]] :
        q \in TermCoords \X TermCoords \X (0..MaxN)}

\* handle_task on a binary curve, at its call of the curve
InitTerm ==
    /\ curve \in BinaryCurves(TermModuli)
    /\ line = <<>>
    /\ pc = "parsed"
    /\ task \in TermTasks
    /\ st = NoLoop
    /\ res = Infinity
    /\ err = ""
    /\ out = ""
    /\ FieldIdle
    /\ BatchIdle

\* the branch op.startswith("a"): the call of curve.add
AddCall ==
    /\ pc = "parsed"
    /\ task.op = "a"
    /\ Begin(BC_beginAdd(curve, task.pts[1], task.pts[2]), "task")
    /\ UNCHANGED <<curve, line, task, fld, fa, fb, prod, invres, batchVars>>

\* `if k & 1: result = self.add(result, addend)` at the head of an iteration
IterationAdd ==
    /\ pc = "multiply"
    /\ st.k > 0
    /\ IF st.k % 2 = 1
       THEN Begin(BC_beginAdd(curve, st.result, st.addend), "add")
       ELSE pc' = "doubling" /\ UNCHANGED <<st, res, err, out, frame>>
    /\ UNCHANGED <<curve, line, task, fld, fa, fb, prod, invres, batchVars>>

\* `addend = self.double(addend); k >>= 1`
IterationDouble ==
    /\ pc = "doubling"
    /\ Begin(BC_beginDouble(curve, st.addend), "double")
    /\ UNCHANGED <<curve, line, task, fld, fa, fb, prod, invres, batchVars>>

\* one iteration of `while u != 1` of inv
InvIteration ==
    /\ pc = "inverting"
    /\ frame.s[1] # 1
    /\ frame' = [frame EXCEPT !.s = BF_invStep(@)]
    /\ UNCHANGED <<pc, err, taskVars, fld, fa, fb, prod, invres, batchVars>>

\* `return self.reduce(g1)`, the mul of div, and the rest of the curve call
InvReturn ==
    /\ pc = "inverting"
    /\ frame.s[1] = 1
    /\ Return(frame.ret, BC_finish(curve, frame, Val(BF_reduce(curve.f, frame.s[3]))))
    /\ frame' = NoFrame
    /\ UNCHANGED <<curve, line, task, fld, fa, fb, prod, invres, batchVars>>

NextTerm ==
    \/ AddCall
    \/ MultiplyCall
    \/ IterationAdd
    \/ IterationDouble
    \/ InvIteration
    \/ InvReturn
    \/ MultiplyReturn

\* the interpreter runs the one thread of the program whenever it can take a step
SpecTerm == InitTerm /\ [][NextTerm]_vars /\ WF_vars(NextTerm)

(***************************************************************************)
(* The drivers: main over the files of INPUT (process_file per file), and  *)
(* run_on_text on one pasted input                                         *)
(***************************************************************************)
MaxFiles == 2      \* a batch holds 1..MaxFiles input files

HeadPrime ==
    <<<<"Z", "p">>,
      <<"2", "3">>,
      <<"1", " ", "1">>>>
HeadPrimeTwoLines ==
    <<<<"1">>,
      <<"0", "x", "1", "7">>,
      <<"1">>,
      <<"1">>>>
HeadBinary ==
    <<<<"G", "F", "(", "2", "^", "m", ")">>,
      <<"3", " ", "1", " ", "0">>,
      <<"0", " ", "1">>>>
HeadUnknown ==
    <<<<"x", "y", "z">>,
      <<"2", "3">>,
      <<"1", " ", "1">>>>
NoTasks ==
    <<>>
OneAdd ==
    <<<<"A", " ", "(", "3", ",", "1", "0", ")", " ", "(", "3", ",", "1", "3", ")">>>>
MulThenAdd ==
    <<<<"M", " ", "(", "3", ",", "1", "0", ")", " ", "2">>,
      <<"A", " ", "(", "3", ",", "1", "0", ")", " ", "(", "3", ",", "1", "3", ")">>>>
BadInTheMiddle ==
    <<<<"M", " ", "(", "1", ",", "0", ")", " ", "0">>,
      <<"Z", " ", "(", "1", ",", "2", ")">>,
      <<"M", " ", "(", "3", ",", "1", "0", ")", " ", "2">>>>
NegativeLast ==
    <<<<"M", " ", "(", "1", ",", "0", ")", " ", "0">>,
      <<>>,
      <<"M", " ", "(", "1", ",", "0", ")", " ", "-", "3">>>>
TwoMul ==
    <<<<"M", " ", "(", "1", ",", "0", ")", " ", "0">>,
      <<" ", " ", "M", " ", "(", "1", ",", "0", ")", " ", "1">>>>

InputPool == {h \o t : h \in {HeadPrime, HeadPrimeTwoLines, HeadBinary, HeadUnknown},
                       t \in {NoTasks, OneAdd, MulThenAdd, BadInTheMiddle, NegativeLast, TwoMul}}

RECURSIVE SeqsUpTo(_, _)
SeqsUpTo(S, n) ==
    IF n = 0 THEN {<<>>}
    ELSE SeqsUpTo(S, n - 1) \cup {Append(q, x) : q \in {r \in SeqsUpTo(S, n - 1) : Len(r) = n - 1}, x \in S}

InitBatch ==
    /\ mode \in {"batch", "text"}
    /\ files \in {b \in SeqsUpTo(InputPool, MaxFiles) : b # <<>>}
    /\ mode = "text" => Len(files) = 1
    /\ fi = 1
    /\ tasks = <<>>
    /\ ti = 0
    /\ results = <<>>
    /\ written = {}
    /\ pc = "main"
    /\ err = ""
    /\ curve = NoCurve /\ line = <<>> /\ task = NoTask
    /\ st = NoLoop /\ res = Infinity /\ out = ""
    /\ FieldIdle

\* process_file / run_on_text to the head of the list comprehension: the lines
\* are stripped and the blank ones dropped, fewer than 4 raise, parse_curve
Opened(r) ==
    /\ pc' = IF r.err # "" THEN "failed" ELSE "tasks"
    /\ err' = r.err
    /\ curve' = r.curve
    /\ tasks' = r.tasks

OpenInput ==
    /\ pc = "main"
    /\ fi <= Len(files)
    /\ Opened(ReadInput(files[fi]))
    /\ ti' = 1
    /\ results' = <<>>
    /\ UNCHANGED <<line, task, st, res, out, fieldVars, mode, files, fi, written>>

\* one element of [handle_task(curve, task) for task in tasks]
\* a comprehension that drops a failing task and goes on to the next line
Handled_SkipFailed(r) ==
    /\ pc' = "tasks"
    /\ err' = err
    /\ results' = IF r.err # "" THEN results ELSE Append(results, r.out)
    /\ ti' = ti + 1

\* the comprehension takes the result r of one task, or lets its raise through
Handled(r) ==
    /\ pc' = IF r.err # "" THEN Fate(r.err) ELSE "tasks"
    /\ err' = Seen(r.err)
    /\ results' = IF r.err # "" THEN results ELSE Append(results, r.out)
    /\ ti' = IF r.err # "" THEN ti ELSE ti + 1

RunTask ==
    /\ pc = "tasks"
    /\ ti <= Len(tasks)
    /\ Handled(handle_task(curve, tasks[ti]))
    /\ UNCHANGED <<taskVars, fieldVars, mode, files, fi, tasks, written>>

\* process_file: out_path.write_text("\n".join(results)); main goes on to the next file
WriteOutput ==
    /\ pc = "tasks"
    /\ ti > Len(tasks)
    /\ mode = "batch"
    /\ written' = written \cup {<<fi, Join(results)>>}
    /\ fi' = fi + 1
    /\ pc' = "main"
    /\ UNCHANGED <<err, taskVars, fieldVars, mode, files, tasks, ti, results>>

\* run_on_text: return "\n".join(results)
ReturnText ==
    /\ pc = "tasks"
    /\ ti > Len(tasks)
    /\ mode = "text"
    /\ out' = Join(results)
    /\ pc' = "done"
    /\ UNCHANGED <<err, curve, line, task, st, res, fieldVars, batchVars>>

\* main: the loop over the files is exhausted
Exit ==
    /\ pc = "main"
    /\ fi > Len(files)
    /\ pc' = "exit"
    /\ UNCHANGED <<err, taskVars, fieldVars, batchVars>>

NextBatch == OpenInput \/ RunTask \/ WriteOutput \/ ReturnText \/ Exit

SpecBatch == InitBatch /\ [][NextBatch]_vars

Ended == pc \in {"done", "failed", "hung"}
\* what the call returned or raised
Outcome == IF pc = "done" THEN Ret(res) ELSE Fail(err)

\* acc = R_j; the result is R_(j+n), where R_0 = Infinity, R_(k+1) = add(R_k, P)
RECURSIVE RepeatedAddFrom(_, _, _, _)
RepeatedAddFrom(c, pt, acc, n) ==
    IF n = 0 \/ acc.err # "" THEN acc
    ELSE RepeatedAddFrom(c, pt, CurveAdd(c, acc.pt, pt), n - 1)
RepeatedAdd(c, pt, n) == RepeatedAddFrom(c, pt, Ret(Infinity), n)

\* C1: on a non-singular curve over a prime or irreducible modulus, for a point
\* P of the curve and n >= 0, multiply(P, n) returns without raising and returns
\* the n-fold repeated addition of P: R_0 = Infinity, R_(k+1) = add(R_k, P).
C1_MultiplyIsRepeatedAddition ==
    Ended => /\ pc = "done"
             /\ Ret(res) = RepeatedAdd(curve, task.pts[1], task.scalar)

C1_Witness ==
    /\ pc = "done"
    /\ curve.kind = "binary"
    /\ task.scalar = 11
    /\ ~res.inf
    /\ res # task.pts[1]

\* C2: add(P, Q) and add(Q, P) have the same outcome for every pair of points
\* with canonical coordinates, on the curve or not.
C2_AddCommutes ==
    (Ended /\ task.op = "a" /\ Canonical(curve, task.pts[1]) /\ Canonical(curve, task.pts[2]))
        => Outcome = CurveAdd(curve, task.pts[2], task.pts[1])

\* C4: for a point with canonical coordinates, multiply(P, 0) returns Infinity
\* and multiply(P, 1) returns P, neither raising (any prime p, p = 2 included).
C4_MultiplyZeroAndOne ==
    (Ended /\ task.op = "m" /\ Canonical(curve, task.pts[1]) /\ task.scalar \in {0, 1})
        => /\ pc = "done"
           /\ res = IF task.scalar = 0 THEN Infinity ELSE task.pts[1]

\* C5: a multiplication whose scalar is negative fails with InvalidScalar before
\* any add or double is performed, and the task yields no result line.
C5_NegativeScalarRejected ==
    (task.op = "m" /\ task.scalar < 0 /\ pc # "parsed")
        => /\ pc = "failed"
           /\ err = "InvalidScalar"
           /\ st.calls = 0
           /\ out = ""
           /\ CurveMultiply(curve, Infinity, task.scalar) = Fail("InvalidScalar")

C5_Witness ==
    /\ pc = "failed"
    /\ err = "InvalidScalar"
    /\ line = <<"M", " ", "(", "1", ",", "0", ")", " ", "-", "3">>

\* C9: every affine point that add, double or multiply returns has both
\* coordinates in canonical reduced form, whatever integers the task line held.
C9_ResultsCanonical == pc = "done" => Canonical(curve, res)
\* C3: in a prime field and in a binary field with an irreducible modulus,
\* every non-zero canonical element has an inverse, and times it is 1.
C3_InverseTimesElement ==
    (Proper(fld) /\ fa # 0)
        => /\ pc \notin {"failed", "hung"}
           /\ pc = "mulinv" => prod = 1

C3_Witness ==
    /\ pc = "mulinv"
    /\ fld = [kind |-> "binary", m |-> 19]
    /\ fa = 6
    /\ invres.val = 7
    /\ prod = 1

\* C8: for a modulus of degree m >= 1 and a, b of degree < m, BinaryField.mul
\* returns the remainder, modulo the modulus, of the schoolbook carry-less product.
C8_MulIsSchoolbook ==
    (pc = "mul" /\ fld.kind = "binary") => prod = PolyMod(ClMul(fa, fb), fld.m)

C8_Witness ==
    /\ pc = "mul"
    /\ fld = [kind |-> "binary", m |-> 19]
    /\ fa = 13
    /\ fb = 11
    /\ prod = PolyMod(ClMul(13, 11), 19)
    /\ ClMul(13, 11) > 16
\* rs holds, in order, the result lines of the first Len(rs) tasks of ts
InOrder(c, ts, rs) ==
    \A j \in 1..Len(rs) : handle_task(c, ts[j]) = [err |-> "", out |-> rs[j]]

Surfaced(r) == r.err # "" /\ pc = Fate(r.err) /\ err = Seen(r.err)

\* text is the output of an input read as r: one line per task, none failing
InFull(r, text) ==
    /\ r.err = ""
    /\ \A j \in 1..Len(r.tasks) : handle_task(r.curve, r.tasks[j]).err = ""
    /\ text = Join([j \in 1..Len(r.tasks) |-> handle_task(r.curve, r.tasks[j]).out])

\* C6: within one input the tasks are evaluated in line order and evaluation
\* stops at the first failing task: the results so far are those of the tasks
\* before the current one, all of which succeeded; a failing task is the
\* current one and its failure reaches the caller; and an output written or
\* returned holds exactly one result per task line, in task-line order.
C6_InOrderFailFast ==
    /\ pc = "tasks" =>
          /\ ti <= Len(tasks) + 1
          /\ Len(results) = ti - 1
          /\ InOrder(curve, tasks, results)
    /\ (pc \in {"failed", "hung"} /\ tasks # <<>>) =>
          /\ ti <= Len(tasks)
          /\ Len(results) = ti - 1
          /\ InOrder(curve, tasks, results)
          /\ Surfaced(handle_task(curve, tasks[ti]))
    /\ pc = "done" =>
          /\ Len(results) = Len(tasks)
          /\ InFull(ReadInput(files[1]), out)
    /\ \A w \in written : InFull(ReadInput(files[w[1]]), w[2])

C6_Witness ==
    /\ pc = "failed"
    /\ err = "UnknownTask"
    /\ Len(tasks) = 3
    /\ ti = 2
    /\ Len(results) = 1
    /\ fi = 2
    /\ \E w \in written : w[1] = 1 /\ w[2] = "(3, 10) * 2 = (7, 12)\n(3, 10) + (3, 13) = 0"

\* an input that process_file handles without raising
ValidInput(r) ==
    /\ r.err = ""
    /\ \A j \in 1..Len(r.tasks) : handle_task(r.curve, r.tasks[j]).err = ""

\* C7: when a batch run has ended, by exhausting the files or by a failure,
\* every input of the batch that is itself valid has its output written.
C7_OtherInputsStillWritten ==
    (mode = "batch" /\ pc \in {"exit", "failed", "hung"}) =>
        \A i \in 1..Len(files) :
            ValidInput(ReadInput(files[i])) => \E w \in written : w[1] = i

\* C10: on a binary curve with an irreducible reduction polynomial, the
\* evaluation of every Add or Multiply task on points with non-negative
\* integer coordinates eventually ends, with a result or with an error.
C10_TaskTerminates == <>(pc \in {"done", "failed"})

=============================================================================
